---- MODULE Spec2Model ----
(***************************************************************************)
(* Gravity Tic-Tac-Toe (3x3 React component GravityTicTacToe).             *)
(*                                                                         *)
(* The component keeps one React state object, gameState.  Every handler   *)
(* is a closure over the gameState of the render that created it.  A click *)
(* handler always belongs to the latest render, so it reads the current    *)
(* gameState.  A callback handed to setTimeout keeps the closure of the    *)
(* render that scheduled it: when it fires it still reads that render's    *)
(* gameState (G below), while its setGameState(prev => ...) updates are    *)
(* applied to the current state.                                           *)
(***************************************************************************)
EXTENDS Integers, Sequences, FiniteSets, TLC

\* Bound on the makeAIMove callbacks scheduled in a run of rounds that overlap
\* a callback of an earlier round (counted from the last start that found no
\* callback pending).  Rounds that no such callback reaches are not bounded.
MaxScheduled == 3

\* Bound of the score collection: the number of GameScore documents saved.
MaxScores == 3

\* Bound of the number of updateGameStats calls on the user document.
MaxUpdates == 3

\* Bound of the number of friend requests sent (checked or saved).
MaxRequests == 3

\* Bounds of the timed 6x7 game: the rounds started and the marks the player
\* places in a round.
MaxRounds == 1
MaxTimedMoves == 4

Rows == 0..2
Cols == 0..2
\* Column arguments handed to makeMove (col: number), in and out of range.
ColInputs == -1..3

Empty == "null"
Null == <<>>
NoValue == "none"

VARIABLES
  gameState,    \* the React state object of the component
  showResults,  \* the results modal flag
  timers,       \* pending makeAIMove callbacks, oldest first
  startPending, \* playAgain's pending setTimeout(startGame, 100)
  last,         \* what the last handler did (observation only)
  returned,     \* the value the last makeMove call returned to its caller
  dirty,        \* a start found a callback of an earlier round pending
  scheduled     \* callbacks scheduled since the last start with none pending

vars == <<gameState, showResults, timers, startPending, last, returned,
          dirty, scheduled>>

\* The server: the GameScore collection, the authenticated user's document
\* and the body of the last HTTP response.
VARIABLES
  scores,       \* the GameScore collection, in order of createdAt
  gameStats,    \* req.user.gameStats
  stats,        \* req.user.stats
  response,     \* the last response sent
  gameData      \* req.body.gameData of the last POST /score

serverVars == <<scores, gameStats, stats, response, gameData>>

\* The friends routes: the users' documents and the calls in progress.
VARIABLES
  friends,         \* user.friends of every user
  friendRequests,  \* user.friendRequests of every user
  calls,           \* POST /friend-request calls between their checks and their save
  nextId,          \* the _id the next friendRequests subdocument gets
  reply            \* the last response of a friends route

friendVars == <<friends, friendRequests, calls, nextId, reply>>

\* GameRunner: the state object of the component.
VARIABLES
  runnerState

runnerVars == <<runnerState>>

\* SimpleGravityTicTacToe, the timed 6x7 game: the component's state hooks,
\* its interval and timeouts, and the calls of the onGameComplete prop.
VARIABLES
  timed

timedVars == <<timed>>

\* What the handlers of the game leave alone, and what the routes do.
outsideGame == <<serverVars, friendVars, runnerVars, timedVars>>
outsideServer == <<vars, friendVars, runnerVars, timedVars>>
outsideFriends == <<vars, serverVars, runnerVars, timedVars>>
outsideRunner == <<vars, serverVars, friendVars, timedVars>>
outsideTimed == <<vars, serverVars, friendVars, runnerVars>>

EmptyBoard == [r \in Rows |-> [c \in Cols |-> Empty]]

InitialGameState ==
  [board |-> EmptyBoard, currentPlayer |-> "X", gameStatus |-> "waiting",
   winner |-> Empty, winningLine |-> Null, moves |-> 0]

NoLast == [op |-> "init", outcome |-> NoValue, col |-> -1, row |-> -1]

Max(S) == CHOOSE x \in S : \A y \in S : y <= x

Min(S) == CHOOSE x \in S : \A y \in S : x <= y

\* Variant: the scan runs from the top row down and returns the first empty row.
getLowestEmptyCellTopDown(board, col) ==
  IF col \notin Cols THEN -1
  ELSE LET S == {r \in Rows : board[r][col] = Empty}
       IN IF S = {} THEN -1 ELSE Min(S)

\* for (row = 2; row >= 0; row--) if (board[row][col] === null) return row; return -1
\* An out-of-range col reads undefined, which is not null, so the result is -1.
getLowestEmptyCell(board, col) ==
  IF col \notin Cols THEN -1
  ELSE LET S == {r \in Rows : board[r][col] = Empty}
       IN IF S = {} THEN -1 ELSE Max(S)

\* Variant: the diagonals are tested before the row and the column.
checkWinDiagonalsFirst(board, row, col) ==
  LET player == board[row][col] IN
  IF player = Empty THEN Null
  ELSE IF row = col /\ board[0][0] = player /\ board[1][1] = player /\ board[2][2] = player
    THEN << <<0, 0>>, <<1, 1>>, <<2, 2>> >>
  ELSE IF row + col = 2 /\ board[0][2] = player /\ board[1][1] = player /\ board[2][0] = player
    THEN << <<0, 2>>, <<1, 1>>, <<2, 0>> >>
  ELSE IF board[row][0] = player /\ board[row][1] = player /\ board[row][2] = player
    THEN << <<row, 0>>, <<row, 1>>, <<row, 2>> >>
  ELSE IF board[0][col] = player /\ board[1][col] = player /\ board[2][col] = player
    THEN << <<0, col>>, <<1, col>>, <<2, col>> >>
  ELSE Null

\* Variant: a vertical line is listed from the bottom row upward.
checkWinBottomUp(board, row, col) ==
  LET player == board[row][col] IN
  IF player = Empty THEN Null
  ELSE IF board[row][0] = player /\ board[row][1] = player /\ board[row][2] = player
    THEN << <<row, 0>>, <<row, 1>>, <<row, 2>> >>
  ELSE IF board[0][col] = player /\ board[1][col] = player /\ board[2][col] = player
    THEN << <<2, col>>, <<1, col>>, <<0, col>> >>
  ELSE IF row = col /\ board[0][0] = player /\ board[1][1] = player /\ board[2][2] = player
    THEN << <<0, 0>>, <<1, 1>>, <<2, 2>> >>
  ELSE IF row + col = 2 /\ board[0][2] = player /\ board[1][1] = player /\ board[2][0] = player
    THEN << <<0, 2>>, <<1, 1>>, <<2, 0>> >>
  ELSE Null

\* Variant: the second diagonal is not checked.
checkWinOneDiagonal(board, row, col) ==
  LET player == board[row][col] IN
  IF player = Empty THEN Null
  ELSE IF board[row][0] = player /\ board[row][1] = player /\ board[row][2] = player
    THEN << <<row, 0>>, <<row, 1>>, <<row, 2>> >>
  ELSE IF board[0][col] = player /\ board[1][col] = player /\ board[2][col] = player
    THEN << <<0, col>>, <<1, col>>, <<2, col>> >>
  ELSE IF row = col /\ board[0][0] = player /\ board[1][1] = player /\ board[2][2] = player
    THEN << <<0, 0>>, <<1, 1>>, <<2, 2>> >>
  ELSE Null

checkWin(board, row, col) ==
  LET player == board[row][col] IN
  IF player = Empty THEN Null
  ELSE IF board[row][0] = player /\ board[row][1] = player /\ board[row][2] = player
    THEN << <<row, 0>>, <<row, 1>>, <<row, 2>> >>
  ELSE IF board[0][col] = player /\ board[1][col] = player /\ board[2][col] = player
    THEN << <<0, col>>, <<1, col>>, <<2, col>> >>
  ELSE IF row = col /\ board[0][0] = player /\ board[1][1] = player /\ board[2][2] = player
    THEN << <<0, 0>>, <<1, 1>>, <<2, 2>> >>
  ELSE IF row + col = 2 /\ board[0][2] = player /\ board[1][1] = player /\ board[2][0] = player
    THEN << <<0, 2>>, <<1, 1>>, <<2, 0>> >>
  ELSE Null

\* board.map(row => [...row]) followed by newBoard[row][col] = mark
Place(board, row, col, mark) == [board EXCEPT ![row][col] = mark]

\* Variant: handleGameEnd does not store the winning line.
handleGameEndNoLine(prev, status, winner, winningLine) ==
  [prev EXCEPT !.gameStatus = status, !.winner = winner]

\* handleGameEnd's setGameState(prev => ({...prev, gameStatus, winner, winningLine, ...}))
handleGameEnd(prev, status, winner, winningLine) ==
  [prev EXCEPT !.gameStatus = status, !.winner = winner, !.winningLine = winningLine]

\* Variant: startGame does not clear the move counter.
startGameKeepMoves(prev) ==
  [prev EXCEPT !.board = EmptyBoard, !.currentPlayer = "X", !.gameStatus = "playing",
               !.winner = Empty, !.winningLine = Null]

\* startGame's setGameState: a fresh round, whatever the previous state was.
startGame(prev) ==
  [prev EXCEPT !.board = EmptyBoard, !.currentPlayer = "X", !.gameStatus = "playing",
               !.winner = Empty, !.winningLine = Null, !.moves = 0]

\* resetGame's setGameState: back to waiting with an empty board.
resetGame(prev) ==
  [prev EXCEPT !.board = EmptyBoard, !.currentPlayer = "X", !.gameStatus = "waiting",
               !.winner = Empty, !.winningLine = Null, !.moves = 0]

\* The cell buttons' disabled attribute (renderCell).
CellDisabled(gs) == gs.gameStatus # "playing" \/ gs.currentPlayer # "X"

\* Variant: a rejected move still switches the player.
rejectMoveSwitch(G, why) ==
  [gs |-> [G EXCEPT !.currentPlayer = IF G.currentPlayer = "X" THEN "O" ELSE "X"],
   outcome |-> why, row |-> -1, schedule |-> FALSE, ended |-> FALSE]

\* Variant: a rejected move still counts as a move.
rejectMoveCount(G, why) ==
  [gs |-> [G EXCEPT !.moves = G.moves + 1],
   outcome |-> why, row |-> -1, schedule |-> FALSE, ended |-> FALSE]

\* Variant: a rejected move still schedules the opponent's move.
rejectMoveSchedule(G, why) ==
  [gs |-> G, outcome |-> why, row |-> -1, schedule |-> TRUE, ended |-> FALSE]

\* makeMove's early returns (if (...) return;): nothing is set, nothing is
\* scheduled.
rejectMove(G, why) ==
  [gs |-> G, outcome |-> why, row |-> -1, schedule |-> FALSE, ended |-> FALSE]

\* The result of makeMove(col) run in the render whose state is G:
\* the next gameState, the outcome (which return was taken), the cell written
\* and whether setTimeout(() => makeAIMove(newBoard)) was called.
makeMoveResult(G, col) ==
  LET row == getLowestEmptyCell(G.board, col) IN
  IF G.gameStatus # "playing" THEN rejectMove(G, "notPlaying")
  ELSE IF row = -1 THEN rejectMove(G, "columnFull")
  ELSE
    LET newBoard == Place(G.board, row, col, G.currentPlayer)
        newMoves == G.moves + 1
        placed == [G EXCEPT !.board = newBoard, !.moves = newMoves]
        winningLine == checkWin(newBoard, row, col)
        nextPlayer == IF G.currentPlayer = "X" THEN "O" ELSE "X"
    IN
    IF winningLine # Null
      THEN [gs |-> handleGameEnd(placed, "won", G.currentPlayer, winningLine),
            outcome |-> "won", row |-> row,
            schedule |-> FALSE, ended |-> TRUE]
    ELSE IF newMoves = 9
      THEN [gs |-> handleGameEnd(placed, "draw", Empty, Null),
            outcome |-> "draw", row |-> row,
            schedule |-> FALSE, ended |-> TRUE]
    ELSE [gs |-> [placed EXCEPT !.currentPlayer = nextPlayer],
          outcome |-> "placed", row |-> row,
          schedule |-> (nextPlayer = "O"), ended |-> FALSE]

\* The closure a scheduled makeAIMove call keeps: the render's board, status
\* and move counter (G), and the argument newBoard.
AITimer(G, newBoard) ==
  [board |-> G.board, gameStatus |-> G.gameStatus, moves |-> G.moves,
   currentBoard |-> newBoard]

\* A click on an enabled cell button: onClick runs makeMove(col) when
\* currentPlayer is X.  makeMove itself returns nothing (undefined).
makeMove(col) ==
  /\ ~CellDisabled(gameState)
  /\ gameState.currentPlayer = "X"
  /\ LET res == makeMoveResult(gameState, col) IN
     /\ ~dirty \/ ~res.schedule \/ scheduled < MaxScheduled
     /\ gameState' = res.gs
     /\ showResults' = (showResults \/ res.ended)
     /\ timers' = IF res.schedule
                    THEN Append(timers, AITimer(gameState, res.gs.board))
                    ELSE timers
     /\ last' = [op |-> "makeMove", outcome |-> res.outcome, col |-> col,
                 row |-> res.row]
     /\ returned' = "undefined"
     /\ scheduled' = IF res.schedule THEN scheduled + 1 ELSE scheduled
  /\ UNCHANGED <<startPending, dirty>>
  /\ UNCHANGED outsideGame

\* A click on a disabled cell button: the browser drops the event.
DisabledClick(col) ==
  /\ CellDisabled(gameState)
  /\ last' = [NoLast EXCEPT !.op = "disabledClick", !.outcome = "ignored"]
  /\ UNCHANGED <<gameState, showResults, timers, startPending, returned,
                 dirty, scheduled>>
  /\ UNCHANGED outsideGame

\* availableMoves: the columns the closure's getLowestEmptyCell finds not full,
\* in ascending order.
RECURSIVE availableFrom(_, _)
availableFrom(board, col) ==
  IF col > 2 THEN <<>>
  ELSE (IF getLowestEmptyCell(board, col) # -1 THEN <<col>> ELSE <<>>)
       \o availableFrom(board, col + 1)

availableMoves(board) == availableFrom(board, 0)

\* The first column of avail (from index i) whose simulated drop of mark on
\* currentBoard, at the row the closure's board gives, wins; -1 if none.
RECURSIVE firstWinning(_, _, _, _, _)
firstWinning(avail, i, board, currentBoard, mark) ==
  IF i > Len(avail) THEN -1
  ELSE LET col == avail[i]
           row == getLowestEmptyCell(board, col)
       IN IF row # -1 /\ checkWin(Place(currentBoard, row, col, mark), row, col) # Null
            THEN col
            ELSE firstWinning(avail, i + 1, board, currentBoard, mark)

\* bestMove before the random override (lines 203-232).
heuristicMove(board, currentBoard) ==
  LET avail == availableMoves(board)
      win == firstWinning(avail, 1, board, currentBoard, "O")
      afterWin == IF win # -1 THEN win ELSE avail[1]
      block == firstWinning(avail, 1, board, currentBoard, "X")
  IN IF afterWin = avail[1] /\ block # -1 THEN block ELSE afterWin

\* The columns bestMove can end up as: the heuristic move, or, when
\* Math.random() > aiSkill and more than one column is available, any
\* available column.
aiChoices(board, currentBoard) ==
  LET avail == availableMoves(board) IN
  {heuristicMove(board, currentBoard)}
    \cup (IF Len(avail) > 1 THEN {avail[i] : i \in 1..Len(avail)} ELSE {})

\* makeAIMove(currentBoard) run with closure t, placing in column bestMove,
\* its setGameState updates applied to the current state prev.
aiMoveResult(prev, t, bestMove) ==
  LET row == getLowestEmptyCell(t.board, bestMove) IN
  IF row = -1
    THEN [gs |-> prev, outcome |-> "columnFull", row |-> -1, ended |-> FALSE]
  ELSE
    LET newBoard == Place(t.currentBoard, row, bestMove, "O")
        newMoves == t.moves + 2
        placed == [prev EXCEPT !.board = newBoard, !.moves = newMoves]
        winningLine == checkWin(newBoard, row, bestMove)
    IN
    IF winningLine # Null
      THEN [gs |-> handleGameEnd(placed, "won", "O", winningLine),
            outcome |-> "won", row |-> row, ended |-> TRUE]
    ELSE IF newMoves = 9
      THEN [gs |-> handleGameEnd(placed, "draw", Empty, Null),
            outcome |-> "draw", row |-> row, ended |-> TRUE]
    ELSE [gs |-> [placed EXCEPT !.currentPlayer = "X"],
          outcome |-> "placed", row |-> row, ended |-> FALSE]

\* The oldest pending setTimeout callback fires: makeAIMove(newBoard).
makeAIMove ==
  /\ timers # <<>>
  /\ LET t == Head(timers) IN
     /\ timers' = Tail(timers)
     /\ IF t.gameStatus # "playing"
          THEN /\ last' = [NoLast EXCEPT !.op = "makeAIMove", !.outcome = "notPlaying"]
               /\ UNCHANGED <<gameState, showResults>>
        ELSE IF Len(availableMoves(t.board)) = 0
          THEN /\ last' = [NoLast EXCEPT !.op = "makeAIMove", !.outcome = "noMoves"]
               /\ UNCHANGED <<gameState, showResults>>
        ELSE \E bestMove \in aiChoices(t.board, t.currentBoard) :
               LET res == aiMoveResult(gameState, t, bestMove) IN
               /\ gameState' = res.gs
               /\ showResults' = (showResults \/ res.ended)
               /\ last' = [op |-> "makeAIMove", outcome |-> res.outcome,
                           col |-> bestMove, row |-> res.row]
  /\ UNCHANGED <<startPending, returned, dirty, scheduled>>
  /\ UNCHANGED outsideGame

\* Bookkeeping of the bound at a start.
StartCount ==
  /\ dirty' = (timers # <<>>)
  /\ scheduled' = IF timers = <<>> THEN 0 ELSE scheduled

\* The "Start Game" button, rendered while gameStatus is waiting.
StartClick ==
  /\ gameState.gameStatus = "waiting"
  /\ gameState' = startGame(gameState)
  /\ showResults' = FALSE
  /\ last' = [NoLast EXCEPT !.op = "startGame"]
  /\ StartCount
  /\ UNCHANGED <<timers, startPending, returned>>
  /\ UNCHANGED outsideGame

\* The "New Game" button, rendered while gameStatus is not waiting.
NewGameClick ==
  /\ gameState.gameStatus # "waiting"
  /\ gameState' = resetGame(gameState)
  /\ showResults' = FALSE
  /\ last' = [NoLast EXCEPT !.op = "resetGame"]
  /\ UNCHANGED <<timers, startPending, returned, dirty, scheduled>>
  /\ UNCHANGED outsideGame

\* The results modal's "Play Again" button: resetGame(), then
\* setTimeout(() => startGame(), 100).
playAgain ==
  /\ showResults
  /\ ~startPending
  /\ gameState' = resetGame(gameState)
  /\ showResults' = FALSE
  /\ startPending' = TRUE
  /\ last' = [NoLast EXCEPT !.op = "resetGame"]
  /\ UNCHANGED <<timers, returned, dirty, scheduled>>
  /\ UNCHANGED outsideGame

\* playAgain's timeout fires.
StartTimeout ==
  /\ startPending
  /\ startPending' = FALSE
  /\ gameState' = startGame(gameState)
  /\ showResults' = FALSE
  /\ last' = [NoLast EXCEPT !.op = "startGame"]
  /\ StartCount
  /\ UNCHANGED <<timers, returned>>
  /\ UNCHANGED outsideGame

(***************************************************************************)
(* The score service: POST /score, POST /practice and the global           *)
(* leaderboard, for one authenticated user.                                *)
(***************************************************************************)

\* The enum of gameType and the values requests are drawn from.
GameTypes == {"lineDrop", "circleStop", "gravityTicTacToe", "wordSprint"}
GameTypeInputs == {"gravityTicTacToe", "wordSprint"}
DifficultyInputs == {"easy", "hard"}
\* Scores sent in a request body; -1 fails isInt({ min: 0 }).
ScoreInputs == -1..1

\* The schema defaults of user.gameStats and user.stats. averageScore is the
\* quotient num / den.
InitialGameStats ==
  [g \in GameTypes |->
     IF g = "gravityTicTacToe"
       THEN [bestScore |-> 0, gamesPlayed |-> 0, totalScore |-> 0, gamesWon |-> 0]
     ELSE IF g = "wordSprint"
       THEN [bestScore |-> 0, gamesPlayed |-> 0, totalScore |-> 0, wordsSolved |-> 0]
     ELSE [bestScore |-> 0, gamesPlayed |-> 0, totalScore |-> 0]]

InitialStats ==
  [totalGamesPlayed |-> 0, totalScore |-> 0, averageScore |-> [num |-> 0, den |-> 1],
   bestScore |-> 0, gamesWon |-> 0]

NoResponse ==
  [route |-> "none", status |-> 0, leaderboardPosition |-> 0, leaderboard |-> <<>>,
   userPosition |-> 0]

\* A request body without gameData.
NoData == [status |-> NoValue, winner |-> NoValue, moves |-> 0]

\* new GameScore({...}): completed takes its default, true.
GameScore(gameType, difficulty, score, isPractice) ==
  [gameType |-> gameType, difficulty |-> difficulty, score |-> score,
   isPractice |-> isPractice, completed |-> TRUE]

\* gameScore.getLeaderboardPosition(): countDocuments({gameType, difficulty,
\* score: {$gt: this.score}}) + 1 over the collection docs.
getLeaderboardPosition(docs, doc) ==
  Cardinality({i \in 1..Len(docs) :
                 /\ docs[i].gameType = doc.gameType
                 /\ docs[i].difficulty = doc.difficulty
                 /\ docs[i].score > doc.score}) + 1

\* The documents matched by {gameType, difficulty, isPractice: false,
\* completed: true}, as indexes into docs.
Ranked(docs, gameType, difficulty) ==
  {i \in 1..Len(docs) :
     /\ docs[i].gameType = gameType
     /\ docs[i].difficulty = difficulty
     /\ ~docs[i].isPractice
     /\ docs[i].completed}

\* .sort({ score: -1, createdAt: 1 }) of the documents S.
RECURSIVE sortByScore(_, _)
sortByScore(docs, S) ==
  IF S = {} THEN <<>>
  ELSE LET top == Max({docs[i].score : i \in S})
           i == Min({j \in S : docs[j].score = top})
       IN <<docs[i]>> \o sortByScore(docs, S \ {i})

\* The leaderboard query of GET /global (first page, every entry fits).
getTopScores(docs, gameType, difficulty) ==
  sortByScore(docs, Ranked(docs, gameType, difficulty))

\* user.updateGameStats(gameType, score, won) on the per-game stats.
updateGameStats(gs, gameType, score, won) ==
  LET played == [gs EXCEPT ![gameType].gamesPlayed = @ + 1,
                           ![gameType].totalScore = @ + score,
                           ![gameType].bestScore = Max({@, score})]
  IN IF won /\ gameType = "gravityTicTacToe"
       THEN [played EXCEPT ![gameType].gamesWon = @ + 1]
     ELSE IF gameType = "wordSprint"
       THEN [played EXCEPT ![gameType].wordsSolved = @ + 1]
     ELSE played

\* Variant: the overall best score is not raised.
updateOverallStatsKeepBest(st, score, won) ==
  [totalGamesPlayed |-> st.totalGamesPlayed + 1,
   totalScore |-> st.totalScore + score,
   averageScore |-> [num |-> st.totalScore + score, den |-> st.totalGamesPlayed + 1],
   bestScore |-> st.bestScore,
   gamesWon |-> IF won THEN st.gamesWon + 1 ELSE st.gamesWon]

\* user.updateGameStats(gameType, score, won) on the overall stats.
updateOverallStats(st, score, won) ==
  [totalGamesPlayed |-> st.totalGamesPlayed + 1,
   totalScore |-> st.totalScore + score,
   averageScore |-> [num |-> st.totalScore + score, den |-> st.totalGamesPlayed + 1],
   bestScore |-> Max({st.bestScore, score}),
   gamesWon |-> IF won THEN st.gamesWon + 1 ELSE st.gamesWon]

\* validateGameScore: a request that fails validation is answered 400.
ValidScore(gameType, difficulty, score) ==
  /\ gameType \in GameTypes
  /\ difficulty \in {"easy", "medium", "hard", "extreme"}
  /\ score >= 0

BadRequest(route) ==
  /\ response' = [NoResponse EXCEPT !.route = route, !.status = 400]
  /\ UNCHANGED <<scores, gameStats, stats>>

\* router.post('/score', ...) for a request body with these fields.
PostScore(gameType, difficulty, score, isPractice, data) ==
  /\ Len(scores) < MaxScores
  /\ gameData' = data
  /\ IF ~ValidScore(gameType, difficulty, score)
       THEN BadRequest("score")
     ELSE
       LET gameScore == GameScore(gameType, difficulty, score, isPractice)
           won == IF gameType = "gravityTicTacToe" THEN score > 0 ELSE TRUE
           saved == Append(scores, gameScore)
       IN /\ scores' = saved
          /\ IF ~isPractice
               THEN /\ gameStats' = updateGameStats(gameStats, gameType, score, won)
                    /\ stats' = updateOverallStats(stats, score, won)
               ELSE UNCHANGED <<gameStats, stats>>
          /\ response' = [NoResponse EXCEPT
                            !.route = "score", !.status = 201,
                            !.leaderboardPosition =
                               getLeaderboardPosition(saved, gameScore)]
  /\ UNCHANGED outsideServer

\* router.post('/practice', ...)
PostPractice(gameType, difficulty, score) ==
  /\ Len(scores) < MaxScores
  /\ UNCHANGED gameData
  /\ IF ~ValidScore(gameType, difficulty, score)
       THEN BadRequest("practice")
     ELSE /\ scores' = Append(scores, GameScore(gameType, difficulty, score, TRUE))
          /\ response' = [NoResponse EXCEPT !.route = "practice", !.status = 201]
          /\ UNCHANGED <<gameStats, stats>>
  /\ UNCHANGED outsideServer

\* The user's best ranked score for the listing, or none.
UserBest(docs, gameType, difficulty) ==
  LET S == Ranked(docs, gameType, difficulty)
  IN {i \in S : \A j \in S : docs[j].score <= docs[i].score}

\* router.get('/global', ...): the listing and the position of the user's
\* best ranked score (0 stands for null).
GetLeaderboard(gameType, difficulty) ==
  /\ response' =
       [NoResponse EXCEPT
          !.route = "global", !.status = 200,
          !.leaderboard = getTopScores(scores, gameType, difficulty),
          !.userPosition =
             LET best == UserBest(scores, gameType, difficulty)
             IN IF best = {} THEN 0
                ELSE getLeaderboardPosition(scores, scores[CHOOSE i \in best : TRUE])]
  /\ UNCHANGED <<scores, gameStats, stats, gameData>>
  /\ UNCHANGED outsideServer

\* DIFFICULTY_SETTINGS.easy of the 3x3 game: maxScore, and timeBonus in
\* hundredths.
maxScore == 1000
timeBonusPercent == 20

\* Math.round(n / d) for n >= 0, d > 0.
Round(n, d) == (2 * n + d) \div (2 * d)

\* handleGameEnd's score: maxScore * (1 + timeBonus + moveBonus) for a win of
\* the player, a tenth of maxScore for a win of the opponent, half of it for
\* a draw. timeBonus is (30 - t) / 30 * 0.2 and moveBonus (9 - m) / 9 * 0.3,
\* here over the common denominator 3000.
roundScore(status, winner, moves, timeElapsed) ==
  IF status = "won" /\ winner = "X"
    THEN Round(maxScore * (3000 + Max({0, 30 - timeElapsed}) * timeBonusPercent
                                + Max({0, 9 - moves}) * 100), 3000)
  ELSE IF status = "won" THEN Round(maxScore, 10)
  ELSE IF status = "draw" THEN Round(maxScore * 5, 10)
  ELSE 0

\* The outcomes handleGameEnd is called with, the move counts and the
\* seconds elapsed it is handed.
RoundOutcomes ==
  {[status |-> "won", winner |-> "X"], [status |-> "won", winner |-> "O"],
   [status |-> "draw", winner |-> Empty]}
MoveInputs == {5, 9}
TimeInputs == {3, 30}

\* The gameType of the request: the literal the 3x3 component sends, which
\* validateGameScore rejects, and the name the route accepts for the game.
RoundGameTypes == {"gravity-tic-tac-toe", "gravityTicTacToe"}

\* handleGameEnd's submission: if (score > 0) POST /api/games/score with
\* the round's score and gameData {status, winner, moves}.
SubmitRound(gameType, outcome, moves, timeElapsed) ==
  LET score == roundScore(outcome.status, outcome.winner, moves, timeElapsed) IN
  /\ score > 0
  /\ PostScore(gameType, "easy", score, FALSE,
               [status |-> outcome.status, winner |-> outcome.winner, moves |-> moves])

(***************************************************************************)
(* The friends routes of users.js.                                         *)
(***************************************************************************)

Users == {"ann", "bob"}
\* req.body.username: a user's name or a name nobody has.
UsernameInputs == Users \cup {"nobody"}

NoReply == [route |-> "none", status |-> 0, accepted |-> FALSE, was |-> NoValue]

\* array.includes(x) and the number of occurrences of x.
Includes(seq, x) == \E i \in 1..Len(seq) : seq[i] = x
Count(seq, x) == Cardinality({i \in 1..Len(seq) : seq[i] = x})

\* array.pull(x) / $pull: every occurrence goes.
RECURSIVE Pull(_, _)
Pull(seq, x) ==
  IF seq = <<>> THEN <<>>
  ELSE (IF Head(seq) = x THEN <<>> ELSE <<Head(seq)>>) \o Pull(Tail(seq), x)

\* friendRequests.pull(requestId): the subdocument with that _id goes.
RECURSIVE PullId(_, _)
PullId(seq, id) ==
  IF seq = <<>> THEN <<>>
  ELSE (IF Head(seq).id = id THEN <<>> ELSE <<Head(seq)>>) \o PullId(Tail(seq), id)

\* targetUser.friendRequests.find(req => req.from.equals(senderId) &&
\* req.status === 'pending') found something.
existingRequest(requests, senderId) ==
  \E i \in 1..Len(requests) :
     requests[i].from = senderId /\ requests[i].status = "pending"

\* POST /friend-request up to its save: the target is read and the checks
\* are made on the document as read.
FriendRequestCheck(senderId, username) ==
  /\ nextId + Len(calls) <= MaxRequests
  /\ IF username \notin Users
       THEN /\ reply' = [NoReply EXCEPT !.route = "friend-request", !.status = 404]
            /\ UNCHANGED calls
     ELSE IF username = senderId
       THEN /\ reply' = [NoReply EXCEPT !.route = "friend-request", !.status = 400]
            /\ UNCHANGED calls
     ELSE IF Includes(friends[username], senderId)
       THEN /\ reply' = [NoReply EXCEPT !.route = "friend-request", !.status = 400]
            /\ UNCHANGED calls
     ELSE IF existingRequest(friendRequests[username], senderId)
       THEN /\ reply' = [NoReply EXCEPT !.route = "friend-request", !.status = 400]
            /\ UNCHANGED calls
     ELSE /\ calls' = Append(calls, [from |-> senderId, to |-> username])
          /\ UNCHANGED reply
  /\ UNCHANGED <<friends, friendRequests, nextId>>
  /\ UNCHANGED outsideFriends

\* POST /friend-request from its push on: targetUser.friendRequests.push(...)
\* and save(), which appends the subdocument to the stored array.
FriendRequestSave(k) ==
  /\ k \in 1..Len(calls)
  /\ LET call == calls[k] IN
     /\ friendRequests' =
          [friendRequests EXCEPT
             ![call.to] = Append(@, [id |-> nextId, from |-> call.from,
                                     status |-> "pending"])]
     /\ nextId' = nextId + 1
     /\ calls' = SubSeq(calls, 1, k - 1) \o SubSeq(calls, k + 1, Len(calls))
     /\ reply' = [NoReply EXCEPT !.route = "friend-request", !.status = 200]
  /\ UNCHANGED friends
  /\ UNCHANGED outsideFriends

\* PUT /friend-request/:requestId with action accept or reject.
RespondFriendRequest(userId, requestId, action) ==
  /\ LET found == {i \in 1..Len(friendRequests[userId]) :
                     friendRequests[userId][i].id = requestId}
     IN IF found = {}
          THEN /\ reply' = [NoReply EXCEPT !.route = "respond", !.status = 404]
               /\ UNCHANGED <<friends, friendRequests>>
        ELSE
          LET i == CHOOSE j \in found : TRUE
              request == friendRequests[userId][i]
          IN /\ reply' = [route |-> "respond", status |-> 200,
                          accepted |-> (action = "accept"), was |-> request.status]
             /\ IF action = "accept"
                  THEN /\ friends' =
                            [u \in Users |->
                               IF u = userId /\ u = request.from
                                 THEN friends[u] \o <<request.from, userId>>
                               ELSE IF u = userId THEN Append(friends[u], request.from)
                               ELSE IF u = request.from THEN Append(friends[u], userId)
                               ELSE friends[u]]
                       /\ friendRequests' =
                            [friendRequests EXCEPT ![userId] = PullId(@, requestId)]
                  ELSE /\ friendRequests' =
                            [friendRequests EXCEPT ![userId][i].status = "rejected"]
                       /\ UNCHANGED friends
  /\ UNCHANGED <<calls, nextId>>
  /\ UNCHANGED outsideFriends

\* DELETE /friends/:friendId
RemoveFriend(userId, friendId) ==
  /\ friends' =
       LET first == [friends EXCEPT ![userId] = Pull(@, friendId)]
       IN [first EXCEPT ![friendId] = Pull(@, userId)]
  /\ reply' = [NoReply EXCEPT !.route = "remove", !.status = 200]
  /\ UNCHANGED <<friendRequests, calls, nextId>>
  /\ UNCHANGED outsideFriends

FriendNext ==
  \/ \E senderId \in Users, username \in UsernameInputs :
        FriendRequestCheck(senderId, username)
  \/ \E k \in 1..MaxRequests : FriendRequestSave(k)
  \/ \E userId \in Users, requestId \in 1..MaxRequests, action \in {"accept", "reject"} :
        RespondFriendRequest(userId, requestId, action)
  \/ \E userId \in Users, friendId \in Users : RemoveFriend(userId, friendId)

(***************************************************************************)
(* GameRunner of part_008.                                                 *)
(***************************************************************************)

\* for (let i = 0; i < 20; i++): the games of a sequence.
SequenceLength == 20

\* GAMES.length
GamesCount == 4

InitialRunnerState ==
  [currentGameIndex |-> 0, currentDifficulty |-> "easy", gameSequence |-> <<>>,
   isPlaying |-> FALSE, score |-> 0, level |-> 1, totalGamesPlayed |-> 0,
   gamesWon |-> 0]

\* generateGameSequence(): SequenceLength indexes into GAMES. Math.random()
\* may give any such sequence; the ones explored are those that repeat one
\* game and the one that cycles through GAMES.
GameSequences ==
  {[i \in 1..SequenceLength |-> g] : g \in 0..(GamesCount - 1)}
    \cup {[i \in 1..SequenceLength |-> (i - 1) % GamesCount]}

\* The scores the Play button hands to handleGameComplete:
\* Math.floor(Math.random() * 1000) + 100, at its two ends.
GameScoreInputs == {100, 1099}

\* startNewSequence's setGameState
startNewSequence(prev, newSequence) ==
  [prev EXCEPT !.currentGameIndex = 0, !.currentDifficulty = "easy",
               !.gameSequence = newSequence, !.isPlaying = TRUE, !.score = 0,
               !.level = 1, !.totalGamesPlayed = 0, !.gamesWon = 0]

\* The difficulty after a game at difficulty d.
nextDifficulty(d, won) ==
  IF won
    THEN (IF d = "easy" THEN "medium"
          ELSE IF d = "medium" THEN "hard"
          ELSE IF d = "hard" THEN "extreme"
          ELSE d)
  ELSE (IF d = "extreme" THEN "hard"
        ELSE IF d = "hard" THEN "medium"
        ELSE IF d = "medium" THEN "easy"
        ELSE d)

\* Variant: the last game of the sequence moves on like any other.
handleGameCompleteNoEnd(prev, won, gameScore) ==
  [prev EXCEPT !.currentGameIndex = @ + 1,
               !.currentDifficulty = nextDifficulty(prev.currentDifficulty, won),
               !.totalGamesPlayed = @ + 1,
               !.gamesWon = IF won THEN @ + 1 ELSE @,
               !.score = @ + gameScore,
               !.level = @ + 1]

\* Variant: a lost game does not lower the difficulty.
handleGameCompleteUpOnly(prev, won, gameScore) ==
  IF prev.currentGameIndex >= Len(prev.gameSequence) - 1
    THEN [prev EXCEPT !.isPlaying = FALSE,
                      !.totalGamesPlayed = @ + 1,
                      !.gamesWon = IF won THEN @ + 1 ELSE @,
                      !.score = @ + gameScore]
  ELSE [prev EXCEPT !.currentGameIndex = @ + 1,
                    !.currentDifficulty =
                       IF won THEN nextDifficulty(prev.currentDifficulty, won) ELSE @,
                    !.totalGamesPlayed = @ + 1,
                    !.gamesWon = IF won THEN @ + 1 ELSE @,
                    !.score = @ + gameScore,
                    !.level = @ + 1]

\* handleGameComplete's setGameState
handleGameComplete(prev, won, gameScore) ==
  IF prev.currentGameIndex >= Len(prev.gameSequence) - 1
    THEN [prev EXCEPT !.isPlaying = FALSE,
                      !.totalGamesPlayed = @ + 1,
                      !.gamesWon = IF won THEN @ + 1 ELSE @,
                      !.score = @ + gameScore]
  ELSE [prev EXCEPT !.currentGameIndex = @ + 1,
                    !.currentDifficulty = nextDifficulty(prev.currentDifficulty, won),
                    !.totalGamesPlayed = @ + 1,
                    !.gamesWon = IF won THEN @ + 1 ELSE @,
                    !.score = @ + gameScore,
                    !.level = @ + 1]

\* The "Start Gaming Journey" button, rendered while isPlaying is false.
StartSequenceClick(newSequence) ==
  /\ ~runnerState.isPlaying
  /\ runnerState' = startNewSequence(runnerState, newSequence)
  /\ UNCHANGED outsideRunner

\* The "Play" button, rendered while isPlaying is true.
PlayClick(won, gameScore) ==
  /\ runnerState.isPlaying
  /\ runnerState' = handleGameComplete(runnerState, won, gameScore)
  /\ UNCHANGED outsideRunner

RunnerNext ==
  \/ \E newSequence \in GameSequences : StartSequenceClick(newSequence)
  \/ \E won \in BOOLEAN, gameScore \in GameScoreInputs : PlayClick(won, gameScore)

(***************************************************************************)
(* SimpleGravityTicTacToe of part_008: the timed 6x7 game.                 *)
(***************************************************************************)

TimedRows == 0..5
TimedCols == 0..6

\* The difficulty prop explored and its settings.timeLimit.
TimedDifficulty == "extreme"
timeLimit(difficulty) ==
  IF difficulty = "easy" THEN 30
  ELSE IF difficulty = "medium" THEN 25
  ELSE IF difficulty = "hard" THEN 20
  ELSE 15

\* The columns the player clicks, and the columns explored of those
\* Math.random() can pick for the opponent.
PlayerColumns == {0, 1}
OpponentColumns == {1, 6}

TimedEmptyBoard == [r \in TimedRows |-> [c \in TimedCols |-> Empty]]

\* The state after the useState/useRef initializers. score is left out. The
\* fields below interval are the timeouts pending and what is recorded of the
\* rounds: round numbers the startGame calls, endCalls and completeCalls count
\* the endGame and onGameComplete calls of a round, ticked says the interval
\* has fired since the pending opponent move was scheduled.
InitialTimed ==
  [board |-> TimedEmptyBoard, currentPlayer |-> "X", gameResult |-> "null",
   timeLeft |-> 30, isPlaying |-> FALSE, interval |-> FALSE,
   aiTimers |-> <<>>, completions |-> <<>>, round |-> 0,
   endCalls |-> [r \in 1..MaxRounds |-> 0],
   completeCalls |-> [r \in 1..MaxRounds |-> 0],
   moves |-> 0, ticked |-> FALSE, lastOp |-> "init"]

\* findLowestEmptyRow(col) on the board of the render it was created in.
findLowestEmptyRow(board, col) ==
  LET S == {r \in TimedRows : board[r][col] = Empty}
  IN IF S = {} THEN -1 ELSE Max(S)

\* The number of consecutive cells holding player from (row, col) on in the
\* direction (dr, dc), (row, col) itself not counted.
RECURSIVE RunFrom(_, _, _, _, _, _)
RunFrom(board, row, col, dr, dc, player) ==
  LET r == row + dr
      c == col + dc
  IN IF r \in TimedRows /\ c \in TimedCols /\ board[r][c] = player
       THEN 1 + RunFrom(board, r, c, dr, dc, player)
       ELSE 0

\* checkWin(board, row, col, player): four or more in a line through the cell.
timedCheckWin(board, row, col, player) ==
  /\ player # Empty
  /\ \E d \in {<<0, 1>>, <<1, 0>>, <<1, 1>>, <<1, -1>>} :
        1 + RunFrom(board, row, col, -d[1], -d[2], player)
          + RunFrom(board, row, col, d[1], d[2], player) >= 4

\* checkDraw(board): board[0].every(cell => cell !== null)
checkDraw(board) == \A c \in TimedCols : board[0][c] # Empty

\* endGame(won, finalScore) called for round r.
endGame(t, won, r) ==
  [t EXCEPT !.isPlaying = FALSE,
            !.gameResult = IF won THEN "won" ELSE "lost",
            !.interval = FALSE,
            !.completions = Append(@, [round |-> r, won |-> won]),
            !.endCalls = [@ EXCEPT ![r] = @ + 1]]

\* startGame: the "Start Game" button, rendered while !isPlaying and
\* gameResult === null.
TimedStart ==
  /\ ~timed.isPlaying
  /\ timed.gameResult = "null"
  /\ timed.round < MaxRounds
  /\ timed' = [timed EXCEPT !.board = TimedEmptyBoard, !.currentPlayer = "X",
                            !.gameResult = "playing",
                            !.timeLeft = timeLimit(TimedDifficulty),
                            !.isPlaying = TRUE, !.interval = TRUE,
                            !.round = @ + 1, !.moves = 0, !.lastOp = "startGame"]
  /\ UNCHANGED outsideTimed

\* makeMove(col): a click on a cell of column col.
TimedMakeMove(col) ==
  /\ timed.moves < MaxTimedMoves
  /\ IF timed.gameResult # "playing" \/ timed.currentPlayer # "X"
       THEN timed' = [timed EXCEPT !.lastOp = "ignored"]
     ELSE
       LET row == findLowestEmptyRow(timed.board, col) IN
       IF row = -1
         THEN timed' = [timed EXCEPT !.lastOp = "columnFull"]
       ELSE
         LET newBoard == [timed.board EXCEPT ![row][col] = "X"]
             placed == [timed EXCEPT !.board = newBoard, !.moves = @ + 1,
                                     !.lastOp = "makeMove"]
         IN IF timedCheckWin(newBoard, row, col, "X")
              THEN timed' = endGame(placed, TRUE, timed.round)
            ELSE IF checkDraw(newBoard)
              THEN timed' = endGame(placed, FALSE, timed.round)
            ELSE timed' =
                   [placed EXCEPT
                      !.currentPlayer = "O",
                      !.ticked = FALSE,
                      !.aiTimers = Append(@, [board |-> timed.board,
                                              gameResult |-> timed.gameResult,
                                              currentBoard |-> newBoard,
                                              round |-> timed.round])]
  /\ UNCHANGED outsideTimed

\* The timeout of makeMove fires: if (gameResult === 'playing')
\* makeAIMove(newBoard), with gameResult and findLowestEmptyRow those of the
\* render that scheduled it.
TimedAIMove(randomCol) ==
  /\ timed.aiTimers # <<>>
  /\ LET t == Head(timed.aiTimers)
         fired == [timed EXCEPT !.aiTimers = Tail(@), !.lastOp = "makeAIMove"]
         availableCols == {c \in TimedCols : t.currentBoard[0][c] = Empty}
     IN IF t.gameResult # "playing" \/ availableCols = {}
          THEN /\ randomCol = 6
               /\ timed' = fired
        ELSE
          /\ randomCol \in availableCols
          /\ LET row == findLowestEmptyRow(t.board, randomCol) IN
             IF row = -1
               THEN timed' = fired
             ELSE
               LET newBoard == [t.currentBoard EXCEPT ![row][randomCol] = "O"]
                   placed == [fired EXCEPT !.board = newBoard]
               IN IF timedCheckWin(newBoard, row, randomCol, "O")
                    THEN timed' = endGame(placed, FALSE, t.round)
                  ELSE IF checkDraw(newBoard)
                    THEN timed' = endGame(placed, FALSE, t.round)
                  ELSE timed' = [placed EXCEPT !.currentPlayer = "X"]
  /\ UNCHANGED outsideTimed

\* The interval of startGame fires. aiDelay is at most the interval's
\* period, so it fires at most once while an opponent move is pending.
Tick ==
  /\ timed.interval
  /\ timed.aiTimers # <<>> => ~timed.ticked
  /\ LET ticked == [timed EXCEPT !.ticked = TRUE, !.lastOp = "tick"] IN
     IF timed.timeLeft <= 1
       THEN timed' = endGame([ticked EXCEPT !.timeLeft = 0], FALSE, timed.round)
       ELSE timed' = [ticked EXCEPT !.timeLeft = @ - 1]
  /\ UNCHANGED outsideTimed

\* A timeout of endGame fires: onGameComplete(won, finalScore).
TimedComplete ==
  /\ timed.completions # <<>>
  /\ timed' = [timed EXCEPT
                 !.completions = Tail(@),
                 !.completeCalls =
                    [@ EXCEPT ![Head(timed.completions).round] = @ + 1],
                 !.lastOp = "onGameComplete"]
  /\ UNCHANGED outsideTimed

\* resetGame: the "Play Again" button, rendered while !isPlaying and
\* gameResult !== null.
TimedReset ==
  /\ ~timed.isPlaying
  /\ timed.gameResult # "null"
  /\ timed' = [timed EXCEPT !.board = TimedEmptyBoard, !.currentPlayer = "X",
                            !.gameResult = "null",
                            !.timeLeft = timeLimit(TimedDifficulty),
                            !.isPlaying = FALSE, !.interval = FALSE,
                            !.lastOp = "resetGame"]
  /\ UNCHANGED outsideTimed

TimedNext ==
  \/ TimedStart
  \/ \E col \in PlayerColumns : TimedMakeMove(col)
  \/ \E randomCol \in OpponentColumns : TimedAIMove(randomCol)
  \/ Tick
  \/ TimedComplete
  \/ TimedReset

Init ==
  /\ gameState = InitialGameState
  /\ showResults = FALSE
  /\ timers = <<>>
  /\ startPending = FALSE
  /\ last = NoLast
  /\ returned = NoValue
  /\ dirty = FALSE
  /\ scheduled = 0
  /\ scores = <<>>
  /\ gameStats = InitialGameStats
  /\ stats = InitialStats
  /\ response = NoResponse
  /\ gameData = NoData
  /\ friends = [u \in Users |-> <<>>]
  /\ friendRequests = [u \in Users |-> <<>>]
  /\ calls = <<>>
  /\ nextId = 1
  /\ reply = NoReply
  /\ runnerState = InitialRunnerState
  /\ timed = InitialTimed

Next ==
  \/ \E col \in ColInputs : makeMove(col)
  \/ \E col \in Cols : DisabledClick(col)
  \/ makeAIMove
  \/ StartClick
  \/ NewGameClick
  \/ playAgain
  \/ StartTimeout

Spec == Init /\ [][Next]_vars

ScoreNext ==
  \/ \E gameType \in GameTypeInputs, difficulty \in DifficultyInputs,
        score \in ScoreInputs, isPractice \in BOOLEAN :
          PostScore(gameType, difficulty, score, isPractice, NoData)
  \/ \E gameType \in GameTypeInputs, difficulty \in DifficultyInputs,
        score \in ScoreInputs :
          PostPractice(gameType, difficulty, score)
  \/ \E gameType \in GameTypeInputs, difficulty \in DifficultyInputs :
          GetLeaderboard(gameType, difficulty)

ScoreSpec == Init /\ [][ScoreNext]_serverVars

RoundNext ==
  \E gameType \in RoundGameTypes, outcome \in RoundOutcomes,
     moves \in MoveInputs, timeElapsed \in TimeInputs :
       /\ outcome.status = "draw" => moves = 9
       /\ SubmitRound(gameType, outcome, moves, timeElapsed)

RoundSpec == Init /\ [][RoundNext]_serverVars

\* The scores updateGameStats is called with.
StatsScores == 0..2

\* A call user.updateGameStats(gameType, score, won) followed by user.save().
UpdateGameStats(gameType, score, won) ==
  /\ stats.totalGamesPlayed < MaxUpdates
  /\ gameStats' = updateGameStats(gameStats, gameType, score, won)
  /\ stats' = updateOverallStats(stats, score, won)
  /\ UNCHANGED <<scores, response, gameData>>
  /\ UNCHANGED outsideServer

StatsNext ==
  \E gameType \in GameTypes, score \in StatsScores, won \in BOOLEAN :
     UpdateGameStats(gameType, score, won)

StatsSpec == Init /\ [][StatsNext]_serverVars

FriendSpec == Init /\ [][FriendNext]_friendVars

RunnerSpec == Init /\ [][RunnerNext]_runnerVars

TimedSpec == Init /\ [][TimedNext]_timedVars

TypeOK ==
  /\ gameState.gameStatus \in {"waiting", "playing", "won", "draw"}
  /\ scheduled \in 0..(MaxScheduled + 4)
  /\ Len(scores) <= MaxScores
  /\ response.status \in {0, 200, 201, 400}

(***************************************************************************)
(* Properties                                                              *)
(***************************************************************************)

Board == gameState.board

\* The step just taken was makeMove or makeAIMove and wrote a cell.
Placed(l) == l.op \in {"makeMove", "makeAIMove"} /\ l.row # -1

\* The eight lines of three cells of the 3x3 grid.
Lines ==
  {{<<r, 0>>, <<r, 1>>, <<r, 2>>} : r \in Rows}
    \cup {{<<0, c>>, <<1, c>>, <<2, c>>} : c \in Cols}
    \cup {{<<0, 0>>, <<1, 1>>, <<2, 2>>}, {<<0, 2>>, <<1, 1>>, <<2, 0>>}}

\* The lines through (row, col) whose three cells all hold the mark at (row, col).
RunsThrough(board, row, col) ==
  {L \in Lines : <<row, col>> \in L /\ \A p \in L : board[p[1]][p[2]] = board[row][col]}

LineCells(line) == {line[i] : i \in 1..Len(line)}

ColumnFull(board, col) == \A r \in Rows : board[r][col] # Empty

\* The columns in which a drop of mark on board completes a line.
WinningColumns(board, mark) ==
  {c \in Cols :
     /\ ~ColumnFull(board, c)
     /\ LET r == Max({x \in Rows : board[x][c] = Empty})
        IN RunsThrough([board EXCEPT ![r][c] = mark], r, c) # {}}

SessionUnchanged ==
  /\ gameState' = gameState
  /\ timers' = timers
  /\ showResults' = showResults
  /\ startPending' = startPending

\* C1: no move overwrites a mark: across a step of makeMove or makeAIMove,
\* every cell that held a mark still holds the same mark.
C1_NoOverwrite ==
  [][Placed(last')
       => \A r \in Rows, c \in Cols :
            Board[r][c] # Empty => gameState'.board[r][c] = Board[r][c]]_vars

\* C2: gravity invariant: in every reachable state, a marked cell has no
\* Empty cell below it in its column.
C2_Gravity ==
  \A c \in Cols, r \in Rows :
    Board[r][c] # Empty => \A below \in Rows : below > r => Board[below][c] # Empty

\* C2 witness: after an opponent move, a column holds a stack of two marks
\* under an Empty cell.
C2_Witness ==
  /\ last.op = "makeAIMove"
  /\ last.row # -1
  /\ \E c \in Cols : Board[2][c] # Empty /\ Board[1][c] # Empty /\ Board[0][c] = Empty

\* C3: terminal immutability: once gameStatus is won or draw, a move
\* attempt (a cell click or a scheduled makeAIMove) leaves the board unchanged.
C3_TerminalImmutable ==
  [][(gameState.gameStatus \in {"won", "draw"}
        /\ last'.op \in {"makeMove", "makeAIMove", "disabledClick"})
       => gameState'.board = Board]_vars

\* C4: the opponent never misses a forced win: when it is the opponent's
\* turn on the board handed to makeAIMove and some column wins at once for
\* O, the column makeAIMove plays is such a column.
C4_TakesWin ==
  [][(/\ timers # <<>>
      /\ last'.op = "makeAIMove"
      /\ last'.row # -1
      /\ gameState.gameStatus = "playing"
      /\ gameState.currentPlayer = "O"
      /\ Head(timers).currentBoard = Board
      /\ WinningColumns(Board, "O") # {})
       => last'.col \in WinningColumns(Board, "O")]_vars

\* C5: win detection completeness: a move that leaves a line of three of
\* the mover's marks through the cell it wrote ends the game as won for the
\* mover, with winningLine one of those lines.
C5_WinComplete ==
  [][(Placed(last')
        /\ RunsThrough(gameState'.board, last'.row, last'.col) # {})
       => /\ gameState'.gameStatus = "won"
          /\ gameState'.winner = gameState'.board[last'.row][last'.col]
          /\ gameState'.winner = (IF last'.op = "makeMove" THEN "X" ELSE "O")
          /\ Len(gameState'.winningLine) = 3
          /\ LineCells(gameState'.winningLine)
               \in RunsThrough(gameState'.board, last'.row, last'.col)]_vars

\* C5 witness: a move has just completed a line through the second diagonal.
C5_Witness ==
  /\ Placed(last)
  /\ gameState.gameStatus = "won"
  /\ last.row + last.col = 2
  /\ {<<0, 2>>, <<1, 1>>, <<2, 0>>} \in RunsThrough(Board, last.row, last.col)

\* C6: win detection soundness: whenever winningLine is set, it is three
\* distinct cells forming a line of the grid, all holding the winner's mark
\* on the current board.
C6_WinSound ==
  gameState.winningLine # Null
    => /\ Len(gameState.winningLine) = 3
       /\ LineCells(gameState.winningLine) \in Lines
       /\ gameState.winner \in {"X", "O"}
       /\ \A p \in LineCells(gameState.winningLine) :
            Board[p[1]][p[2]] = gameState.winner

\* C7: turn alternation: a successful non-terminal move places the mark of
\* the player whose turn it was and hands the turn to the other player; a
\* rejected move leaves currentPlayer unchanged.
C7_Alternation ==
  [][/\ (Placed(last') /\ last'.outcome = "placed")
          => /\ gameState'.board[last'.row][last'.col] = gameState.currentPlayer
             /\ gameState'.currentPlayer # gameState.currentPlayer
     /\ (last'.op \in {"makeMove", "makeAIMove", "disabledClick"} /\ last'.row = -1)
          => gameState'.currentPlayer = gameState.currentPlayer]_vars

\* C8: a move into a full column is rejected as column full and changes
\* nothing: gameState is unchanged and no opponent move is scheduled.
C8_FullColumnRejected ==
  [][(last'.op = "makeMove" /\ last'.col \in Cols /\ ColumnFull(Board, last'.col))
       => /\ last'.outcome = "columnFull"
          /\ SessionUnchanged]_vars

\* C8 witness: makeMove was just called on a column that is full.
C8_Witness ==
  /\ last.op = "makeMove"
  /\ last.col \in Cols
  /\ ColumnFull(Board, last.col)
  /\ last.outcome = "columnFull"

\* C9 as stated: a move whose column is out of range fails with
\* InvalidColumn and does not mutate the session.
C9_InvalidColumn ==
  [][(last'.op = "makeMove" /\ last'.col \notin Cols)
       => /\ last'.outcome = "invalidColumn"
          /\ SessionUnchanged]_vars

\* C9 amended: a move whose column is out of range is rejected by the same
\* check as a full column (there is no separate invalid-column outcome) and
\* does not mutate the session.
C9_OutOfRangeRejected ==
  [][(last'.op = "makeMove" /\ last'.col \notin Cols)
       => /\ last'.outcome = "columnFull"
          /\ SessionUnchanged]_vars

\* C9 witness: makeMove was just called with an out-of-range column while
\* marks are on the board.
C9_Witness ==
  /\ last.op = "makeMove"
  /\ last.col \notin Cols
  /\ gameState.moves > 0

ErrorValues == {"InvalidColumn", "ColumnFull", "GameAlreadyOver"}

\* C10 as stated: a rejected move is reported to the caller as one of the
\* error values InvalidColumn, ColumnFull, GameAlreadyOver.
C10_ErrorReported ==
  [][(last'.op = "makeMove" /\ last'.row = -1) => returned' \in ErrorValues]_vars

\* C10 amended: makeMove returns undefined whether it placed a mark or
\* rejected the move; a rejected move leaves the session unchanged, and only
\* a move that placed a mark changes it.
C10_SilentReject ==
  [][last'.op = "makeMove"
       => /\ returned' = "undefined"
          /\ (last'.row = -1 => SessionUnchanged)
          /\ (last'.row # -1 => gameState'.board # Board)]_vars

\* C10 witness: a call was rejected after an earlier call had placed a mark.
C10_Witness ==
  /\ last.op = "makeMove"
  /\ last.row = -1
  /\ returned = "undefined"
  /\ gameState.moves > 0

\* C11: the column makeAIMove plays is legal on the board the mark is written
\* to (its argument currentBoard, which holds the player's latest move): it
\* is in range and has an Empty cell there.
C11_LegalColumn ==
  [][(timers # <<>> /\ last'.op = "makeAIMove" /\ last'.row # -1)
       => /\ last'.col \in Cols
          /\ ~ColumnFull(Head(timers).currentBoard, last'.col)]_vars

Marks(board) == Cardinality({p \in Rows \X Cols : board[p[1]][p[2]] # Empty})

\* C12: in every reachable state moves equals the number of non-Empty
\* cells of the board and is at most 9.
C12_MoveCount ==
  /\ gameState.moves = Marks(Board)
  /\ gameState.moves <= 9

BoardFull(board) == \A r \in Rows, c \in Cols : board[r][c] # Empty

\* C13: a round is a draw exactly when a move fills the last Empty cell
\* without a line: whenever gameStatus is draw the board has no Empty cell
\* and winningLine is empty, and a move that fills the board without
\* completing a line through its cell ends the round as draw.
C13_DrawExact ==
  [][/\ gameState'.gameStatus = "draw"
          => /\ BoardFull(gameState'.board)
             /\ gameState'.winningLine = Null
     /\ (/\ Placed(last')
         /\ BoardFull(gameState'.board)
         /\ RunsThrough(gameState'.board, last'.row, last'.col) = {})
          => gameState'.gameStatus = "draw"]_vars

Terminal(gs) == gs.gameStatus \in {"won", "draw"}

\* C14: status follows waiting -> playing -> {playing, won, draw}: a
\* terminal status is entered only from playing, the board is all Empty
\* whenever gameStatus is waiting, and once the status is terminal no move
\* or opponent callback changes gameStatus, winner or winningLine.
C14_StateMachine ==
  [][/\ (Terminal(gameState') /\ ~Terminal(gameState))
          => gameState.gameStatus = "playing"
     /\ gameState'.gameStatus = "waiting" => gameState'.board = EmptyBoard
     /\ (Terminal(gameState)
           /\ last'.op \in {"makeMove", "makeAIMove", "disabledClick"})
          => /\ gameState'.gameStatus = gameState.gameStatus
             /\ gameState'.winner = gameState.winner
             /\ gameState'.winningLine = gameState.winningLine]_vars

\* C15: starting a new game yields a fresh session whatever the state
\* before: all cells Empty, gameStatus playing, currentPlayer X, moves 0,
\* winner and winningLine cleared.
C15_FreshStart ==
  [][last'.op = "startGame"
       => /\ gameState'.board = EmptyBoard
          /\ gameState'.gameStatus = "playing"
          /\ gameState'.currentPlayer = "X"
          /\ gameState'.moves = 0
          /\ gameState'.winner = Empty
          /\ gameState'.winningLine = Null
          /\ showResults' = FALSE]_vars

\* C15 witness: a game has just been started after an earlier round in which
\* moves were made, with a callback of that round still pending.
C15_Witness ==
  /\ last.op = "startGame"
  /\ gameState.gameStatus = "playing"
  /\ dirty
  /\ scheduled > 0

\* C16: round isolation: a callback that fires while gameStatus is waiting
\* was scheduled in a round that has since been reset, so it must leave the
\* board, moves, currentPlayer and gameStatus unchanged.
C16_RoundIsolation ==
  [][(gameState.gameStatus = "waiting" /\ last'.op = "makeAIMove")
       => /\ gameState'.board = Board
          /\ gameState'.moves = gameState.moves
          /\ gameState'.currentPlayer = gameState.currentPlayer
          /\ gameState'.gameStatus = gameState.gameStatus]_vars

\* C17: winningLine and winner are populated if and only if gameStatus is
\* won: both are empty in waiting, playing and draw.
C17_LineIffWon ==
  /\ gameState.winningLine # Null <=> gameState.gameStatus = "won"
  /\ gameState.winner # Empty <=> gameState.gameStatus = "won"

\* C17 witness: a won state reached by an opponent move.
C17_Witness ==
  /\ gameState.gameStatus = "won"
  /\ gameState.winner = "O"
  /\ gameState.winningLine # Null

\* The player's move just taken wrote a cell and left its column holding
\* three X.
PlayerCompletedColumn(l, board) ==
  /\ l.op = "makeMove"
  /\ l.row # -1
  /\ \A r \in Rows : board[r][l.col] = "X"

RowOfX(board, row) == \A c \in Cols : board[row][c] = "X"

\* C18 (as stated): when the player's mark completes a column of three X,
\* the game is won by X and winningLine lists the column from the bottom
\* row upward: (2,c), (1,c), (0,c).
C18_ColumnBottomUp ==
  [][PlayerCompletedColumn(last', gameState'.board)
       => /\ gameState'.gameStatus = "won"
          /\ gameState'.winner = "X"
          /\ gameState'.winningLine
               = << <<2, last'.col>>, <<1, last'.col>>, <<0, last'.col>> >>]_vars

\* C18 (amended): when the player's mark completes a column of three X,
\* the game is won by X; winningLine lists the column from the top row
\* downward, (0,c), (1,c), (2,c), unless the same mark also completes its
\* row, which checkWin tests first and reports instead.
C18_ColumnTopDown ==
  [][PlayerCompletedColumn(last', gameState'.board)
       => /\ gameState'.gameStatus = "won"
          /\ gameState'.winner = "X"
          /\ gameState'.winningLine
               = IF RowOfX(gameState'.board, last'.row)
                   THEN << <<last'.row, 0>>, <<last'.row, 1>>, <<last'.row, 2>> >>
                   ELSE << <<0, last'.col>>, <<1, last'.col>>, <<2, last'.col>> >>]_vars

\* C18 witness: the player has just completed column 1 and won with it.
C18_Witness ==
  /\ PlayerCompletedColumn(last, Board)
  /\ last.col = 1
  /\ gameState.gameStatus = "won"
  /\ gameState.winningLine = << <<0, 1>>, <<1, 1>>, <<2, 1>> >>

\* C20: block check: when it is the opponent's turn on the board handed to
\* makeAIMove, no column wins at once for O and some non-full column would
\* win at once for X, the column makeAIMove plays is such a blocking column.
C20_Blocks ==
  [][(/\ timers # <<>>
      /\ last'.op = "makeAIMove"
      /\ last'.row # -1
      /\ gameState.gameStatus = "playing"
      /\ gameState.currentPlayer = "O"
      /\ Head(timers).currentBoard = Board
      /\ WinningColumns(Board, "O") = {}
      /\ WinningColumns(Board, "X") # {})
       => last'.col \in WinningColumns(Board, "X")]_vars

\* The step saved a practice score, through either route.
PracticeSaved ==
  /\ Len(scores') = Len(scores) + 1
  /\ scores'[Len(scores')].isPractice

\* C19: practice mode does not affect leaderboards: saving a practice score
\* leaves the user's stats, every leaderboard listing and the leaderboard
\* position of every non-practice score as they were.
C19_PracticeFrame ==
  [][PracticeSaved
       => /\ gameStats' = gameStats
          /\ stats' = stats
          /\ \A g \in GameTypeInputs, d \in DifficultyInputs :
               getTopScores(scores', g, d) = getTopScores(scores, g, d)
          /\ \A i \in 1..Len(scores) :
               ~scores[i].isPractice
                 => getLeaderboardPosition(scores', scores[i])
                      = getLeaderboardPosition(scores, scores[i])]_serverVars

\* The four axes through (row, col) in the order horizontal, vertical,
\* diagonal down-right, diagonal down-left; a diagonal the cell is not on is
\* the empty sequence.
AxisLines(row, col) ==
  << << <<row, 0>>, <<row, 1>>, <<row, 2>> >>,
     << <<0, col>>, <<1, col>>, <<2, col>> >>,
     IF row = col THEN << <<0, 0>>, <<1, 1>>, <<2, 2>> >> ELSE <<>>,
     IF row + col = 2 THEN << <<0, 2>>, <<1, 1>>, <<2, 0>> >> ELSE <<>> >>

\* The axes of (row, col) whose three cells hold the mark at (row, col).
CompleteAxes(board, row, col) ==
  {i \in 1..4 :
     LET line == AxisLines(row, col)[i]
     IN /\ line # <<>>
        /\ \A k \in 1..3 : board[line[k][1]][line[k][2]] = board[row][col]}

\* C21: when the move just made completes lines on two different axes at
\* once, the reported winningLine is the line of the axis that comes first
\* in the order horizontal, vertical, diagonal down-right, diagonal down-left.
C21_AxisOrder ==
  [][(/\ Placed(last')
      /\ Cardinality(CompleteAxes(gameState'.board, last'.row, last'.col)) >= 2)
       => gameState'.winningLine
            = AxisLines(last'.row, last'.col)
                [Min(CompleteAxes(gameState'.board, last'.row, last'.col))]]_vars

\* C21 witness: a move has completed a row and a diagonal at once and the
\* row is reported.
C21_Witness ==
  /\ Placed(last)
  /\ {1, 4} \subseteq CompleteAxes(Board, last.row, last.col)
  /\ gameState.gameStatus = "won"
  /\ gameState.winningLine = << <<last.row, 0>>, <<last.row, 1>>, <<last.row, 2>> >>

\* C22: moves are serialized turn by turn: at most one opponent move is
\* pending at any time, and no player move is accepted while the opponent
\* move triggered by an earlier player move is still pending.
C22_Serialized ==
  [][/\ Len(timers') <= 1
     /\ (last'.op = "makeMove" /\ last'.row # -1) => timers = <<>>]_vars

SumOverGames(field) ==
  gameStats["lineDrop"][field] + gameStats["circleStop"][field]
    + gameStats["gravityTicTacToe"][field] + gameStats["wordSprint"][field]

\* C29: the aggregate stats stay consistent with the per-game stats:
\* totalGamesPlayed and totalScore are the sums over the four games,
\* bestScore is the maximum of their bestScore, each bestScore is at most
\* the game's totalScore, and gamesWon is at most totalGamesPlayed.
C29_Aggregates ==
  /\ stats.totalGamesPlayed = SumOverGames("gamesPlayed")
  /\ stats.totalScore = SumOverGames("totalScore")
  /\ stats.bestScore = Max({gameStats[g].bestScore : g \in GameTypes})
  /\ \A g \in GameTypes : gameStats[g].bestScore <= gameStats[g].totalScore
  /\ stats.gamesWon <= stats.totalGamesPlayed

\* C29 witness: three games of different types have been recorded with
\* different positive scores.
C29_Witness ==
  /\ stats.totalGamesPlayed = 3
  /\ Cardinality({g \in GameTypes : gameStats[g].gamesPlayed = 1}) = 3
  /\ stats.bestScore = 2
  /\ stats.totalScore = 4

\* C25: friendship is symmetric and duplicate-free: A is in B's friends list
\* if and only if B is in A's, nobody is in their own list, and nobody is in
\* a list more than once.
C25_FriendsSymmetric ==
  \A a \in Users :
     /\ ~Includes(friends[a], a)
     /\ \A b \in Users :
          /\ Includes(friends[a], b) <=> Includes(friends[b], a)
          /\ Count(friends[a], b) <= 1

\* C26: a friend request is resolved at most once: no user holds two pending
\* requests from the same sender, and accepting a request that was rejected
\* creates no friendship.
C26_ResolvedOnce ==
  [][/\ \A u \in Users, s \in Users :
          Cardinality({i \in 1..Len(friendRequests'[u]) :
                         /\ friendRequests'[u][i].from = s
                         /\ friendRequests'[u][i].status = "pending"}) <= 1
     /\ (reply'.route = "respond" /\ reply'.accepted /\ reply'.was = "rejected")
          => friends' = friends]_friendVars

\* easy < medium < hard < extreme
DifficultyRank(d) ==
  IF d = "easy" THEN 1 ELSE IF d = "medium" THEN 2 ELSE IF d = "hard" THEN 3 ELSE 4

\* The step just taken completed a game.
GameCompleted == runnerState'.totalGamesPlayed = runnerState.totalGamesPlayed + 1

\* C27: a completed game moves the difficulty one step up after a win
\* (staying at extreme) and one step down after a loss (staying at easy);
\* completing the last game of the sequence leaves difficulty,
\* currentGameIndex and level as they were and sets isPlaying to false.
C27_DifficultyStep ==
  [][GameCompleted
       => IF runnerState.currentGameIndex = Len(runnerState.gameSequence) - 1
            THEN /\ runnerState'.currentDifficulty = runnerState.currentDifficulty
                 /\ runnerState'.currentGameIndex = runnerState.currentGameIndex
                 /\ runnerState'.level = runnerState.level
                 /\ ~runnerState'.isPlaying
          ELSE /\ runnerState'.isPlaying
               /\ DifficultyRank(runnerState'.currentDifficulty)
                    = IF runnerState'.gamesWon > runnerState.gamesWon
                        THEN Min({DifficultyRank(runnerState.currentDifficulty) + 1, 4})
                        ELSE Max({DifficultyRank(runnerState.currentDifficulty) - 1, 1})]_runnerVars

\* C27 witness: a sequence has been completed, with games won and lost, and
\* ended on a difficulty a loss had lowered.
C27_Witness ==
  /\ ~runnerState.isPlaying
  /\ runnerState.totalGamesPlayed = SequenceLength
  /\ runnerState.gamesWon = 10
  /\ runnerState.currentDifficulty = "medium"

\* C28: gamesWon <= totalGamesPlayed <= sequence length; while isPlaying,
\* totalGamesPlayed = currentGameIndex, level = currentGameIndex + 1 and
\* currentGameIndex is an index into gameSequence; isPlaying is false exactly
\* when totalGamesPlayed has reached the length of the sequence.
C28_RunnerInvariant ==
  /\ runnerState.gamesWon <= runnerState.totalGamesPlayed
  /\ runnerState.totalGamesPlayed <= SequenceLength
  /\ runnerState.isPlaying
       => /\ runnerState.totalGamesPlayed = runnerState.currentGameIndex
          /\ runnerState.level = runnerState.currentGameIndex + 1
          /\ runnerState.currentGameIndex \in 0..(Len(runnerState.gameSequence) - 1)
  /\ ~runnerState.isPlaying
       <=> runnerState.totalGamesPlayed = Len(runnerState.gameSequence)

\* C28 witness: the last game of a sequence is about to be played.
C28_Witness ==
  /\ runnerState.isPlaying
  /\ runnerState.currentGameIndex = SequenceLength - 1
  /\ runnerState.level = SequenceLength
  /\ runnerState.gamesWon \in 1..(SequenceLength - 2)

\* C23: in the timed game each started round ends exactly once: endGame runs
\* at most once for a round and onGameComplete is invoked at most once for
\* it, the countdown is stopped once the round has ended, and a round whose
\* completion callback has run had ended.
C23_EndsOnce ==
  \A r \in 1..MaxRounds :
     /\ timed.endCalls[r] <= 1
     /\ timed.completeCalls[r] <= 1
     /\ timed.completeCalls[r] <= timed.endCalls[r]
     /\ (timed.round = r /\ timed.endCalls[r] > 0) => ~timed.interval

====
